---- MODULE Spec2Model ----
(***************************************************************************)
(* Model of ai-radar-mobile: the in-memory job registry with its           *)
(* background generation worker and status endpoint (Flask backend, as     *)
(* documented in docs/INTERVIEW_GUIDE.md), and the serverless proxy        *)
(* handlers (api/newsapi.js, api/sheets.js and the newsdata handler).      *)
(***************************************************************************)
EXTENDS Integers, Sequences, FiniteSets, TLC

VARIABLES
    jobs,       \* the registry: job id -> record (a dict of fields)
    threads,    \* the background threads started so far, in start order
    replies,    \* the bodies generate() has returned to its callers
    lastRead,   \* per job id, the reply to the latest status read of that id
    req,        \* the request a proxy handler was last invoked with
    upstream,   \* what the third-party API did with the forwarded call
    res,        \* the response that handler sent
    calls       \* the voice_chat requests received so far, each with its progress

jobVars == <<jobs, threads, replies, lastRead>>
proxyVars == <<req, upstream, res>>
voiceVars == <<calls>>
vars == <<jobs, threads, replies, lastRead, req, upstream, res, calls>>

----------------------------------------------------------------------------
(* Bounds of the model *)

\* number of generate() calls (hence of background threads) explored
MaxJobs == 2

\* number of voice_chat requests explored
MaxCalls == 2

\* uuid4()[:8] draws one of 16^8 tokens; the model draws from two
JobIds == {"a1b2c3d4", "e5f6a7b8"}

----------------------------------------------------------------------------
(* Job registry and generation worker *)

\* the fixed sequence of generation steps the worker iterates over
steps ==
    << [percent |-> 45, name |-> "Building slides..."],
       [percent |-> 90, name |-> "Finalizing..."] >>

\* a registry that answers every key with a default record
InitialJobsWithDefaults ==
    [id \in JobIds |-> [status |-> "queued", percent |-> 0, message |-> ""]]

\* jobs = {}
InitialJobs == [id \in {} |-> [status |-> "running"]]

\* the dict literal generate() stores for a new job
NewJobRecord == [status |-> "running", percent |-> 0, message |-> "Starting..."]

\* the JSON body generate() returns
GenerateReply(job_id) == [job_id |-> job_id, status |-> "queued"]

\* d[key] = value on a dict held as a function over its keys
SetItem(d, key, value) ==
    [k \in DOMAIN d \cup {key} |-> IF k = key THEN value ELSE d[k]]

\* jobs[job_id] = record
Store(registry, job_id, record) ==
    [k \in DOMAIN registry \cup {job_id} |->
        IF k = job_id THEN record ELSE registry[k]]

\* jobs[job_id][key] = value
SetField(registry, job_id, key, value) ==
    [registry EXCEPT ![job_id] = SetItem(registry[job_id], key, value)]

\* POST /generate
generate(job_id) ==
    /\ Len(threads) < MaxJobs
    /\ jobs' = Store(jobs, job_id, NewJobRecord)
    /\ threads' = Append(threads, [job_id |-> job_id, step |-> 1, pc |-> "percent"])
    /\ replies' = replies \cup {GenerateReply(job_id)}
    /\ UNCHANGED <<lastRead, proxyVars, voiceVars>>

\* do_generation: jobs[job_id]['percent'] = step.percent
SetPercent(t) ==
    /\ threads[t].pc = "percent"
    /\ jobs' = SetField(jobs, threads[t].job_id, "percent", steps[threads[t].step].percent)
    /\ threads' = [threads EXCEPT ![t].pc = "message"]
    /\ UNCHANGED <<replies, lastRead, proxyVars, voiceVars>>

\* do_generation: jobs[job_id]['message'] = step.name
SetMessage(t) ==
    /\ threads[t].pc = "message"
    /\ jobs' = SetField(jobs, threads[t].job_id, "message", steps[threads[t].step].name)
    /\ threads' = [threads EXCEPT ![t].pc = "work"]
    /\ UNCHANGED <<replies, lastRead, proxyVars, voiceVars>>

\* where the loop goes after a step's work returned
AfterWork(th) ==
    IF th.step < Len(steps)
    THEN [th EXCEPT !.step = th.step + 1, !.pc = "percent"]
    ELSE [th EXCEPT !.pc = "complete"]

\* do_generation: "... do work ..." returns
DoWork(t) ==
    /\ threads[t].pc = "work"
    /\ threads' = [threads EXCEPT ![t] = AfterWork(threads[t])]
    /\ UNCHANGED <<jobs, replies, lastRead, proxyVars, voiceVars>>

\* do_generation: "... do work ..." raises; nothing catches it, the thread ends
WorkRaises(t) ==
    /\ threads[t].pc = "work"
    /\ threads' = [threads EXCEPT ![t].pc = "dead"]
    /\ UNCHANGED <<jobs, replies, lastRead, proxyVars, voiceVars>>

\* do_generation: jobs[job_id]['status'] = 'completed'
SetCompleted(t) ==
    /\ threads[t].pc = "complete"
    /\ jobs' = SetField(jobs, threads[t].job_id, "status", "completed")
    /\ threads' = [threads EXCEPT ![t].pc = "done"]
    /\ UNCHANGED <<replies, lastRead, proxyVars, voiceVars>>

----------------------------------------------------------------------------
(* Status endpoint *)

NoRead == [code |-> 0]
NotFound == [code |-> 404]

\* the reply to GET /status/<job_id> in a given registry
StatusReply(registry, job_id) ==
    IF job_id \in DOMAIN registry
    THEN [code |-> 200, body |-> registry[job_id]]
    ELSE NotFound

\* GET /status/<job_id>
get_status(job_id) ==
    /\ lastRead' = [lastRead EXCEPT ![job_id] = StatusReply(jobs, job_id)]
    /\ UNCHANGED <<jobs, threads, replies, proxyVars, voiceVars>>

----------------------------------------------------------------------------
(* Proxy handlers *)

\* before any request: nothing received, nothing forwarded, nothing sent
NoRequest == [handler |-> "none"]
NoCall == [called |-> FALSE]
NoResponse == [sent |-> FALSE]

\* the value of a query parameter or body field that is absent
Undefined == "<undefined>"

\* the HTTP statuses the third-party APIs answer with in the model
UpstreamStatuses == {200, 201, 404, 500}

\* what a forwarded call can do: fetch() rejects, or resolves to a response
\* with a status and a body that parses as JSON or does not
Outcomes ==
    {[threw |-> TRUE]} \cup
    [threw : {FALSE}, status : UpstreamStatuses, json : BOOLEAN]

\* a JSON null
Null == "<null>"

\* JavaScript falsiness of the values the model passes around (!v)
Falsy(v) == v \in {Undefined, Null, ""}

\* v || d
OrElse(v, d) == IF Falsy(v) THEN d ELSE v

\* const { name = d } = obj
DefaultTo(v, d) == IF v = Undefined THEN d ELSE v

\* response.ok
Ok(status) == status >= 200 /\ status <= 299

AllowOrigin == <<"Access-Control-Allow-Origin", "*">>

\* news search: the try block and its catch
NewsResponse(o) ==
    IF o.threw \/ ~o.json
    THEN [sent |-> TRUE, status |-> 500, headers |-> {}, body |-> "error"]
    ELSE [sent |-> TRUE, status |-> o.status, headers |-> {AllowOrigin}, body |-> "data"]

\* api/newsapi.js: news search handler
NewsApiHandler(q, pageSize, o) ==
    /\ req' = [handler |-> "newsapi", q |-> q, pageSize |-> pageSize]
    /\ upstream' = [called |-> TRUE, host |-> "newsapi.org",
                    q |-> OrElse(q, "artificial intelligence"),
                    pageSize |-> DefaultTo(pageSize, "10"), outcome |-> o]
    /\ res' = NewsResponse(o)
    /\ UNCHANGED <<jobVars, voiceVars>>

\* newsdata search: the try block and its catch
NewsDataResponse(o) ==
    IF o.threw \/ ~o.json
    THEN [sent |-> TRUE, status |-> 500, headers |-> {}, body |-> "error"]
    ELSE [sent |-> TRUE, status |-> o.status, headers |-> {AllowOrigin}, body |-> "data"]

\* newsdata search handler
NewsDataHandler(q, language, o) ==
    /\ req' = [handler |-> "newsdata", q |-> q, language |-> language]
    /\ upstream' = [called |-> TRUE, host |-> "newsdata.io",
                    q |-> OrElse(q, "artificial intelligence"),
                    language |-> DefaultTo(language, "en"), outcome |-> o]
    /\ res' = NewsDataResponse(o)
    /\ UNCHANGED <<jobVars, voiceVars>>

\* the request bodies the text-to-speech handler is called with
NoBody == [present |-> FALSE, text |-> Undefined, voice |-> Undefined]
Bodies ==
    {NoBody} \cup
    [present : {TRUE}, text : {Undefined, Null, "", "hello"}, voice : {Undefined, "alloy"}]

\* const { text, voice = 'nova' } = req.body || {}
BodyText(body) == IF body.present THEN body.text ELSE Undefined
BodyVoice(body) == DefaultTo(IF body.present THEN body.voice ELSE Undefined, "nova")

\* the headers the text-to-speech handler sets before anything else
TtsHeaders ==
    { AllowOrigin,
      <<"Access-Control-Allow-Methods", "POST, OPTIONS">>,
      <<"Access-Control-Allow-Headers", "Content-Type">> }

\* a presence check that only catches an absent field
TextIsUndefined(text) == text = Undefined

\* if (!text)
NoText(text) == Falsy(text)

\* text-to-speech: does the handler reach fetch()
TtsCallsUpstream(method, body) ==
    method # "OPTIONS" /\ ~NoText(BodyText(body))

\* text-to-speech: the response on every path
TtsResponse(method, body, o) ==
    IF method = "OPTIONS"
    THEN [sent |-> TRUE, status |-> 200, headers |-> TtsHeaders, body |-> "empty"]
    ELSE IF NoText(BodyText(body))
    THEN [sent |-> TRUE, status |-> 400, headers |-> TtsHeaders, body |-> "error"]
    ELSE IF o.threw
    THEN [sent |-> TRUE, status |-> 500, headers |-> TtsHeaders, body |-> "error"]
    ELSE IF ~Ok(o.status)
    THEN [sent |-> TRUE, status |-> o.status, headers |-> TtsHeaders, body |-> "error"]
    ELSE [sent |-> TRUE, status |-> 200,
          headers |-> TtsHeaders \cup {<<"Content-Type", "audio/mpeg">>},
          body |-> "audio"]

\* api/newsapi.js: text-to-speech handler
TtsHandler(method, body, o) ==
    /\ req' = [handler |-> "tts", method |-> method, body |-> body]
    /\ upstream' = IF TtsCallsUpstream(method, body)
                   THEN [called |-> TRUE, host |-> "api.openai.com",
                         input |-> BodyText(body), voice |-> BodyVoice(body),
                         outcome |-> o]
                   ELSE NoCall
    /\ res' = TtsResponse(method, body, o)
    /\ UNCHANGED <<jobVars, voiceVars>>

\* sheet export: the try block and its catch
SheetsResponse(o) ==
    IF o.threw
    THEN [sent |-> TRUE, status |-> 500, headers |-> {AllowOrigin}, body |-> "error"]
    ELSE [sent |-> TRUE, status |-> 200,
          headers |-> {AllowOrigin, <<"Content-Type", "text/csv">>}, body |-> "text"]

\* api/sheets.js: sheet export handler
SheetsHandler(gid, o) ==
    /\ req' = [handler |-> "sheets", gid |-> gid]
    /\ upstream' = [called |-> TRUE, host |-> "docs.google.com",
                    gid |-> OrElse(gid, "5770604"), outcome |-> o]
    /\ res' = SheetsResponse(o)
    /\ UNCHANGED <<jobVars, voiceVars>>

----------------------------------------------------------------------------
(* Voice pipeline *)

\* a local variable of voice_chat that has not been assigned yet
Unset == "<unset>"

\* the JSON bodies POST /voice-chat is called with (audio is base64 text)
VoiceRequests == [audio : {Undefined, "d2Vi", "d2V"}, title : {Undefined, "Title"}]

\* base64.b64decode: the decoded bytes, or Unset where it raises
B64Decode(text) == IF text = "d2Vi" THEN "web" ELSE Unset

\* base64.b64encode(...).decode()
B64Encode(bytes) == IF bytes = "mp3" THEN "bXAz" ELSE "d2Vi"

\* voice_chat as it is entered with a request body
NewCall(data) ==
    [pc |-> "decode", data |-> data, audio_bytes |-> Unset, question |-> Unset,
     answer |-> Unset, tts |-> Unset, stages |-> << >>, response |-> NoResponse]

\* a reply that leaves out the audio
VoiceChatReplyWithoutAudio(question, answer, tts) ==
    [sent |-> TRUE, status |-> 200,
     body |-> [question |-> question, answer |-> answer]]

\* voice_chat: return jsonify({question, answer, audio})
VoiceChatReply(question, answer, tts) ==
    [sent |-> TRUE, status |-> 200,
     body |-> [question |-> question, answer |-> answer, audio |-> B64Encode(tts)]]

\* an exception leaves voice_chat (nothing in it catches): the server's error reply
ServerError == [sent |-> TRUE, status |-> 500, body |-> [error |-> "Internal Server Error"]]

\* the call after an exception was raised at its current statement
Raised(call) == [call EXCEPT !.pc = "done", !.response = ServerError]

\* POST /voice-chat is received
voice_chat(data) ==
    /\ Len(calls) < MaxCalls
    /\ calls' = Append(calls, NewCall(data))
    /\ UNCHANGED <<jobVars, proxyVars>>

\* voice_chat: audio_bytes = base64.b64decode(data['audio'])
DecodeAudio(c) ==
    /\ calls[c].pc = "decode"
    /\ calls' = [calls EXCEPT ![c] =
          IF calls[c].data.audio = Undefined \/ B64Decode(calls[c].data.audio) = Unset
          THEN Raised(calls[c])
          ELSE [calls[c] EXCEPT !.pc = "transcribe",
                                !.audio_bytes = B64Decode(calls[c].data.audio)]]
    /\ UNCHANGED <<jobVars, proxyVars>>

\* voice_chat step 1: client.audio.transcriptions.create returns
Transcribe(c) ==
    /\ calls[c].pc = "transcribe"
    /\ calls' = [calls EXCEPT ![c] =
          [calls[c] EXCEPT !.pc = "chat", !.question = "What changed?",
                           !.stages = Append(calls[c].stages, "transcribe")]]
    /\ UNCHANGED <<jobVars, proxyVars>>

\* voice_chat step 1: client.audio.transcriptions.create raises
TranscribeRaises(c) ==
    /\ calls[c].pc = "transcribe"
    /\ calls' = [calls EXCEPT ![c] =
          Raised([calls[c] EXCEPT !.stages = Append(calls[c].stages, "transcribe")])]
    /\ UNCHANGED <<jobVars, proxyVars>>

\* voice_chat step 2: data["title"] is missing, building the messages raises
ChatNoTitle(c) ==
    /\ calls[c].pc = "chat"
    /\ calls[c].data.title = Undefined
    /\ calls' = [calls EXCEPT ![c] = Raised(calls[c])]
    /\ UNCHANGED <<jobVars, proxyVars>>

\* voice_chat step 2: client.chat.completions.create returns
Chat(c) ==
    /\ calls[c].pc = "chat"
    /\ calls[c].data.title # Undefined
    /\ calls' = [calls EXCEPT ![c] =
          [calls[c] EXCEPT !.pc = "tts", !.answer = "It got faster.",
                           !.stages = Append(calls[c].stages, "chat")]]
    /\ UNCHANGED <<jobVars, proxyVars>>

\* voice_chat step 2: client.chat.completions.create raises
ChatRaises(c) ==
    /\ calls[c].pc = "chat"
    /\ calls[c].data.title # Undefined
    /\ calls' = [calls EXCEPT ![c] =
          Raised([calls[c] EXCEPT !.stages = Append(calls[c].stages, "chat")])]
    /\ UNCHANGED <<jobVars, proxyVars>>

\* voice_chat step 3: client.audio.speech.create returns
Synthesize(c) ==
    /\ calls[c].pc = "tts"
    /\ calls' = [calls EXCEPT ![c] =
          [calls[c] EXCEPT !.pc = "respond", !.tts = "mp3",
                           !.stages = Append(calls[c].stages, "tts")]]
    /\ UNCHANGED <<jobVars, proxyVars>>

\* voice_chat step 3: client.audio.speech.create raises
SynthesizeRaises(c) ==
    /\ calls[c].pc = "tts"
    /\ calls' = [calls EXCEPT ![c] =
          Raised([calls[c] EXCEPT !.stages = Append(calls[c].stages, "tts")])]
    /\ UNCHANGED <<jobVars, proxyVars>>

\* voice_chat: return both text and audio
Respond(c) ==
    /\ calls[c].pc = "respond"
    /\ calls' = [calls EXCEPT ![c] =
          [calls[c] EXCEPT !.pc = "done",
              !.response = VoiceChatReply(calls[c].question, calls[c].answer, calls[c].tts)]]
    /\ UNCHANGED <<jobVars, proxyVars>>

----------------------------------------------------------------------------

Init ==
    /\ jobs = InitialJobs
    /\ threads = << >>
    /\ replies = {}
    /\ lastRead = [id \in JobIds |-> NoRead]
    /\ req = NoRequest
    /\ upstream = NoCall
    /\ res = NoResponse
    /\ calls = << >>

Next ==
    \/ \E job_id \in JobIds : generate(job_id)
    \/ \E t \in DOMAIN threads : SetPercent(t)
    \/ \E t \in DOMAIN threads : SetMessage(t)
    \/ \E t \in DOMAIN threads : DoWork(t)
    \/ \E t \in DOMAIN threads : WorkRaises(t)
    \/ \E t \in DOMAIN threads : SetCompleted(t)
    \/ \E job_id \in JobIds : get_status(job_id)

Spec == Init /\ [][Next]_vars

\* some statement of background thread t is executed
WorkerStep(t) ==
    /\ t \in DOMAIN threads
    /\ \/ SetPercent(t)
       \/ SetMessage(t)
       \/ DoWork(t)
       \/ WorkRaises(t)
       \/ SetCompleted(t)

\* the registry with every started thread scheduled fairly and every step's
\* work eventually returning or raising
FairSpec == Spec /\ \A t \in 1..MaxJobs : WF_vars(WorkerStep(t))

ProxyNext ==
    \/ \E gid \in {Undefined, "0"}, o \in Outcomes : SheetsHandler(gid, o)
    \/ \E q \in {Undefined, "openai"}, pageSize \in {Undefined, "5"}, o \in Outcomes :
          NewsApiHandler(q, pageSize, o)
    \/ \E q \in {Undefined, "openai"}, language \in {Undefined, "fr"}, o \in Outcomes :
          NewsDataHandler(q, language, o)
    \/ \E method \in {"OPTIONS", "POST", "GET"}, body \in Bodies, o \in Outcomes :
          TtsHandler(method, body, o)

ProxySpec == Init /\ [][ProxyNext]_vars

VoiceNext ==
    \/ \E data \in VoiceRequests : voice_chat(data)
    \/ \E c \in DOMAIN calls : DecodeAudio(c)
    \/ \E c \in DOMAIN calls : Transcribe(c)
    \/ \E c \in DOMAIN calls : TranscribeRaises(c)
    \/ \E c \in DOMAIN calls : ChatNoTitle(c)
    \/ \E c \in DOMAIN calls : Chat(c)
    \/ \E c \in DOMAIN calls : ChatRaises(c)
    \/ \E c \in DOMAIN calls : Synthesize(c)
    \/ \E c \in DOMAIN calls : SynthesizeRaises(c)
    \/ \E c \in DOMAIN calls : Respond(c)

VoiceSpec == Init /\ [][VoiceNext]_vars

----------------------------------------------------------------------------
(* Properties of the job registry, checked under Spec *)

\* the job ids generate() has handed out
ReturnedIds == {r.job_id : r \in replies}

\* the lifecycle the status field is specified to follow
StatusEdges ==
    { <<"queued", "running">>, <<"running", "completed">>, <<"running", "failed">> }
Terminal == {"completed", "failed"}

\* t is s or a later status on one of the two paths
NotEarlier(s, t) ==
    \/ s = t
    \/ <<s, t>> \in StatusEdges
    \/ s = "queued" /\ t \in Terminal

\* both the previous and the new latest read of id found a record
BothFound(id) == lastRead[id].code = 200 /\ lastRead'[id].code = 200

\* C1: a job's status only moves forward along queued -> running -> completed
\* or queued -> running -> failed: no step of generate, the worker or a status
\* read puts a record's status back to an earlier one, and a status read of an
\* id never observes an earlier status than the previous read of that id did.
C1_StatusOnlyMovesForward ==
    [][ /\ \A id \in DOMAIN jobs \cap DOMAIN jobs' :
              \/ jobs'[id].status = jobs[id].status
              \/ <<jobs[id].status, jobs'[id].status>> \in StatusEdges
        /\ \A id \in JobIds :
              BothFound(id) =>
                  NotEarlier(lastRead[id].body.status, lastRead'[id].body.status)
      ]_vars

\* C2: percent is an integer in 0..100, and successive status reads of one id
\* that both see status running never see percent go down.
C2_PercentNonDecreasingWhileRunning ==
    [][ \A id \in JobIds :
          /\ lastRead'[id].code = 200 => lastRead'[id].body.percent \in 0..100
          /\ ( /\ BothFound(id)
               /\ lastRead[id].body.status = "running"
               /\ lastRead'[id].body.status = "running" )
             => lastRead'[id].body.percent >= lastRead[id].body.percent
      ]_vars

LatestThread(id) ==
    CHOOSE t \in DOMAIN threads :
        /\ threads[t].job_id = id
        /\ \A u \in DOMAIN threads : threads[u].job_id = id => u <= t

\* the worker of the latest generate() for id has not run any step yet
NoStepYet(id) ==
    /\ threads[LatestThread(id)].step = 1
    /\ threads[LatestThread(id)].pc = "percent"

\* C4: once generate() has returned an id the registry holds its record, and a
\* status read made before that job's worker ran its first step finds the
\* record with status queued or running and percent 0.
C4_ReadBeforeFirstStep ==
    [][ /\ ReturnedIds \subseteq DOMAIN jobs
        /\ \A id \in ReturnedIds :
              (get_status(id) /\ NoStepYet(id)) =>
                  /\ lastRead'[id].code = 200
                  /\ lastRead'[id].body.status \in {"queued", "running"}
                  /\ lastRead'[id].body.percent = 0
      ]_vars

\* C5: a terminal status is final: no step changes the status of a record
\* that is completed or failed, and two successive reads of one id that both
\* see a terminal status see the same one.
C5_TerminalStatusIsFinal ==
    [][ /\ \A id \in DOMAIN jobs \cap DOMAIN jobs' :
              jobs[id].status \in Terminal => jobs'[id].status = jobs[id].status
        /\ \A id \in JobIds :
              ( /\ BothFound(id)
                /\ lastRead[id].body.status \in Terminal
                /\ lastRead'[id].body.status \in Terminal )
              => lastRead'[id].body.status = lastRead[id].body.status
      ]_vars

\* C6: when a generation step of a job fails, the worker leaves the record
\* with status failed and an error, and that worker then runs no further step
\* and writes nothing more.
C6_FailedStepMarksJobFailed ==
    [][ \A t \in DOMAIN threads :
          /\ WorkRaises(t) =>
                /\ jobs'[threads[t].job_id].status = "failed"
                /\ "error" \in DOMAIN jobs'[threads[t].job_id]
          /\ threads[t].pc = "dead" => threads'[t] = threads[t]
      ]_vars

\* a record carries result exactly when completed and error exactly when failed
WellFormed(record) ==
    /\ "result" \in DOMAIN record <=> record.status = "completed"
    /\ "error" \in DOMAIN record <=> record.status = "failed"

\* C7: every record in the registry, and every record a status read returned,
\* has a result if and only if its status is completed and an error if and
\* only if its status is failed.
C7_ResultAndErrorMatchStatus ==
    /\ \A id \in DOMAIN jobs : WellFormed(jobs[id])
    /\ \A id \in JobIds : lastRead[id].code = 200 => WellFormed(lastRead[id].body)

----------------------------------------------------------------------------
(* Properties of the proxy handlers, checked under ProxySpec *)

\* the upstream call resolved to a response
UpstreamAnswered == upstream.called /\ ~upstream.outcome.threw

\* C8: whenever the upstream call of a proxy handler returned a response with
\* status s, the response the handler sent has status s.
C8_RelaysUpstreamStatus ==
    UpstreamAnswered => res.sent /\ res.status = upstream.outcome.status

\* C9: every response a proxy handler sends carries
\* Access-Control-Allow-Origin: *, whatever path the handler took.
C9_EveryResponseAllowsAnyOrigin ==
    res.sent => AllowOrigin \in res.headers

\* the request is a non-OPTIONS text-to-speech request without usable text
TtsRequestWithoutText ==
    /\ req.handler = "tts"
    /\ req.method # "OPTIONS"
    /\ \/ ~req.body.present
       \/ req.body.text = Undefined
       \/ req.body.text = Null
       \/ req.body.text = ""

\* C10: a non-OPTIONS text-to-speech request whose body is missing, or whose
\* text field is missing or empty, is answered with status 400 and nothing is
\* forwarded to the speech service.
C10_MissingTextIsClientError ==
    TtsRequestWithoutText =>
        /\ res.sent
        /\ res.status = 400
        /\ ~upstream.called

\* C10 witness: a POST with an empty text was answered 400.
C10_Witness ==
    /\ req.handler = "tts"
    /\ req.method = "POST"
    /\ req.body.present
    /\ req.body.text = ""
    /\ res.sent
    /\ res.status = 400

----------------------------------------------------------------------------
(* Properties of the voice pipeline, checked under VoiceSpec *)

PipelineOrder == <<"transcribe", "chat", "tts">>
TripleKeys == {"question", "answer", "audio"}

\* the stages of a call ran in pipeline order, each after the one before it
\* had produced its result
RanInOrder(call) ==
    /\ Len(call.stages) <= Len(PipelineOrder)
    /\ call.stages = SubSeq(PipelineOrder, 1, Len(call.stages))
    /\ Len(call.stages) >= 2 => call.question # Unset
    /\ Len(call.stages) >= 3 => call.answer # Unset

\* the response holds all of question, answer and audio, from three stages
FullTriple(call) ==
    /\ call.response.status = 200
    /\ DOMAIN call.response.body = TripleKeys
    /\ call.stages = PipelineOrder
    /\ call.response.body.question = call.question /\ call.question # Unset
    /\ call.response.body.answer = call.answer /\ call.answer # Unset
    /\ call.response.body.audio = B64Encode(call.tts) /\ call.tts # Unset

\* the response is an error carrying none of the partial results
SingleError(call) ==
    /\ call.response.status # 200
    /\ DOMAIN call.response.body \cap TripleKeys = {}
    /\ call.tts = Unset

\* C11: every voice_chat call runs transcribe, generate answer, synthesize
\* speech in that order, each stage only after the previous one succeeded, and
\* ends in exactly one of: a response with all three of question, answer and
\* audio, or a single error with none of them; after a failed stage no later
\* stage has run.
C11_VoicePipelineAllOrNothing ==
    \A c \in DOMAIN calls :
        /\ RanInOrder(calls[c])
        /\ calls[c].response.sent <=> calls[c].pc = "done"
        /\ calls[c].response.sent =>
              (FullTriple(calls[c]) /\ ~SingleError(calls[c]))
              \/ (SingleError(calls[c]) /\ ~FullTriple(calls[c]))

\* C11 witness: one call answered with the full triple, and another, whose
\* transcription had succeeded, answered with an error.
C11_Witness ==
    \E c, d \in DOMAIN calls :
        /\ calls[c].response.sent /\ FullTriple(calls[c])
        /\ calls[d].response.sent /\ SingleError(calls[d])
        /\ calls[d].question # Unset

----------------------------------------------------------------------------
(* Progress of the generation worker, checked under FairSpec *)

\* C12: every started job eventually reaches status completed or failed, given
\* that its worker thread keeps being scheduled and each step's work returns
\* or raises: no job stays queued or running forever.
C12_EveryJobEventuallyTerminal ==
    \A id \in JobIds :
        [](id \in DOMAIN jobs => <>(id \in DOMAIN jobs /\ jobs[id].status \in Terminal))

----------------------------------------------------------------------------
(* Consistency and isolation of job records, checked under Spec *)

\* the (percent, message) pairs that belong together: the initial pair and
\* one pair per generation step
StepPairs ==
    { <<NewJobRecord.percent, NewJobRecord.message>> } \cup
    { <<steps[i].percent, steps[i].name>> : i \in DOMAIN steps }

\* the progress pair of the last step
LastStepPair == <<steps[Len(steps)].percent, steps[Len(steps)].name>>

\* C13: a status read never returns a torn record: the percent and message it
\* returns belong to the same generation step, and a record read as completed
\* carries the progress fields of the last step.
C13_ReadsAreNeverTorn ==
    \A id \in JobIds :
        lastRead[id].code = 200 =>
            /\ <<lastRead[id].body.percent, lastRead[id].body.message>> \in StepPairs
            /\ lastRead[id].body.status = "completed" =>
                  <<lastRead[id].body.percent, lastRead[id].body.message>> = LastStepPair

\* C14: job records are isolated: generate() returns an id that is not yet a
\* key of the registry, every step leaves the records of all other jobs as
\* they are (generate and a worker write only the record of their own id), and
\* no record is ever removed.
C14_JobRecordsAreIsolated ==
    [][ /\ DOMAIN jobs \subseteq DOMAIN jobs'
        /\ \A id \in JobIds :
              generate(id) =>
                  /\ id \notin DOMAIN jobs
                  /\ \A other \in DOMAIN jobs \ {id} : jobs'[other] = jobs[other]
        /\ \A t \in DOMAIN threads :
              WorkerStep(t) =>
                  \A other \in DOMAIN jobs \ {threads[t].job_id} :
                      jobs'[other] = jobs[other]
      ]_vars

====
